---- MODULE Spec2Model ----
(***************************************************************************)
(* Spectral and temporal averaging of visibilities (src/src/averaging.rs). *)
(*                                                                         *)
(* Numbers.  Input visibilities and weights are small integers, on which   *)
(* the f32 -> f64 widening, the f64 sums and products and the f64 -> f32   *)
(* narrowing of a sum are exact.  An f64 quotient is kept as a fraction in *)
(* lowest terms <<n, d>> with d > 0; IEEE division by zero is kept as a    *)
(* fraction with denominator 0: <<0, 0>> is NaN (0/0), <<1, 0>> is +inf    *)
(* and <<-1, 0>> is -inf.  The final rounding of a quotient to f32 is not  *)
(* modelled: statements about quotients are exact statements about the     *)
(* value that is rounded.                                                  *)
(*                                                                         *)
(* Arrays are functions on 1-based index tuples.                           *)
(***************************************************************************)
EXTENDS Integers, Sequences, FiniteSets, TLC

\* the fixed polarization count of averaging.rs
NPols == 4
Pols == 1..NPols

----------------------------------------------------------------------------
(* Bounds of the model *)

\* largest number of samples of a chunk handed directly to a chunk reducer
MaxChunk == 2
\* largest extent of the time, frequency and baseline axes
MaxT == 3
MaxF == 3
MaxB == 2
\* largest averaging factor
MaxFactor == 3
\* largest number of (time, frequency, baseline) samples of an input
MaxSamples == 4

----------------------------------------------------------------------------
(* f64 arithmetic *)

Abs(x) == IF x < 0 THEN -x ELSE x

Sign(x) == IF x < 0 THEN -1 ELSE IF x = 0 THEN 0 ELSE 1

Min(a, b) == IF a < b THEN a ELSE b

RECURSIVE GCD(_, _)
GCD(a, b) == IF b = 0 THEN a ELSE GCD(b, a % b)

\* n / d in f64: a fraction in lowest terms; x/0 is NaN or an infinity
Div(n, d) ==
    IF d = 0 THEN <<Sign(n), 0>>
    ELSE LET g == GCD(Abs(n), Abs(d))
             s == Sign(d)
         IN  <<(s * n) \div g, (s * d) \div g>>

IsFinite(q) == q[2] # 0

\* the fraction of an integer
FromInt(v) == <<v, 1>>

\* Complex<f64> as <<re, im>>
CZero == <<0, 0>>
CAdd(x, y) == <<x[1] + y[1], x[2] + y[2]>>
CScale(x, w) == <<x[1] * w, x[2] * w>>
CDiv(x, d) == <<Div(x[1], d), Div(x[2], d)>>
CFromInt(x) == <<FromInt(x[1]), FromInt(x[2])>>
CIsFinite(x) == IsFinite(x[1]) /\ IsFinite(x[2])

\* Jones<f64>::default()
JonesDefault == [p \in Pols |-> CZero]

----------------------------------------------------------------------------
(* Variant A: average_chunk_for_pols_f64 *)

\* the accumulators declared before the loops
AccInit ==
    [weight_sum         |-> [p \in Pols |-> 0],
     jones_sum          |-> JonesDefault,
     jones_weighted_sum |-> JonesDefault,
     all_flagged        |-> TRUE]

\* a mutant of the inclusion test: the flag is ignored
IncludedIgnoringFlag(flag_elem, weight_elem) == weight_elem >= 0

\* a mutant of the inclusion test: the sign of the weight is ignored
IncludedAnyWeight(flag_elem, weight_elem) == ~flag_elem

\* the inclusion test of one polarization of one sample
Included(flag_elem, weight_elem) == ~flag_elem /\ weight_elem >= 0

\* the body of the inner loops for one sample: jones_sum takes every sample,
\* the weighted sums take the included polarizations
AccSample(acc, jones, weight, flag) ==
    LET \* izip stops at the shortest of its iterators
        zipped == { p \in Pols : p <= Len(weight) /\ p <= Len(flag) }
        inc == [p \in Pols |-> p \in zipped /\ Included(flag[p], weight[p])]
    IN  [weight_sum |->
            [p \in Pols |-> IF inc[p] THEN acc.weight_sum[p] + weight[p]
                            ELSE acc.weight_sum[p]],
         jones_sum |-> [p \in Pols |-> CAdd(acc.jones_sum[p], jones[p])],
         jones_weighted_sum |->
            [p \in Pols |-> IF inc[p]
                            THEN CAdd(acc.jones_weighted_sum[p],
                                      CScale(jones[p], weight[p]))
                            ELSE acc.jones_weighted_sum[p]],
         all_flagged |-> acc.all_flagged /\ \A p \in Pols : ~inc[p]]

\* the loop over the samples of one row of the chunk, from sample c on
RECURSIVE AccRow(_, _, _, _, _)
AccRow(acc, jones_row, weight_row, flag_row, c) ==
    IF c > Min(Len(jones_row), Min(Len(weight_row), Len(flag_row))) THEN acc
    ELSE AccRow(AccSample(acc, jones_row[c], weight_row[c], flag_row[c]),
                jones_row, weight_row, flag_row, c + 1)

\* the loop over the rows of the chunk, from row r on
RECURSIVE AccChunk(_, _, _, _, _)
AccChunk(acc, jones_chunk, weights_chunk, flags_chunk, r) ==
    IF r > Min(Len(jones_chunk), Min(Len(weights_chunk), Len(flags_chunk)))
    THEN acc
    ELSE AccChunk(AccRow(acc, jones_chunk[r], weights_chunk[r], flags_chunk[r], 1),
                  jones_chunk, weights_chunk, flags_chunk, r + 1)

\* $jones_chunk.len(): the number of samples of a chunk given as rows
RECURSIVE ChunkLen(_)
ChunkLen(chunk) ==
    IF chunk = <<>> THEN 0 ELSE Len(Head(chunk)) + ChunkLen(Tail(chunk))

\* a mutant of the output stage: the fallback mean divides by a nominal
\* chunk size instead of the number of samples present
AvgOutputNominal(acc, chunk_size) ==
    [jones  |-> [p \in Pols |->
                    IF ~acc.all_flagged
                    THEN CDiv(acc.jones_weighted_sum[p], acc.weight_sum[p])
                    ELSE CDiv(acc.jones_sum[p], chunk_size + 1)],
     weight |-> [p \in Pols |-> acc.weight_sum[p]],
     flag   |-> [p \in Pols |-> acc.all_flagged]]

\* a mutant of the output stage: flags are set per polarization
AvgOutputPerPolFlag(acc, chunk_size) ==
    [jones  |-> [p \in Pols |->
                    IF ~acc.all_flagged
                    THEN CDiv(acc.jones_weighted_sum[p], acc.weight_sum[p])
                    ELSE CDiv(acc.jones_sum[p], chunk_size)],
     weight |-> [p \in Pols |-> acc.weight_sum[p]],
     flag   |-> [p \in Pols |-> acc.weight_sum[p] = 0]]

\* the output stage: the weighted mean unless the whole chunk is excluded
AvgOutput(acc, chunk_size) ==
    [jones  |-> [p \in Pols |->
                    IF ~acc.all_flagged
                    THEN CDiv(acc.jones_weighted_sum[p], acc.weight_sum[p])
                    ELSE CDiv(acc.jones_sum[p], chunk_size)],
     weight |-> [p \in Pols |-> acc.weight_sum[p]],
     flag   |-> [p \in Pols |-> acc.all_flagged]]

average_chunk_for_pols_f64(jones_chunk, weights_chunk, flags_chunk) ==
    AvgOutput(AccChunk(AccInit, jones_chunk, weights_chunk, flags_chunk, 1),
              ChunkLen(jones_chunk))

----------------------------------------------------------------------------
(* Variant B: average_chunk_f64 *)

AccInitB ==
    [weight_sum_f64     |-> 0,
     jones_sum          |-> JonesDefault,
     jones_weighted_sum |-> JonesDefault,
     avg_flag           |-> TRUE]

\* a mutant of Variant B's inclusion test: the test of Variant A
IncludedBNonNegative(weight) == weight >= 0

\* the inclusion test of one sample
IncludedB(weight) == weight >= 0 /\ Abs(weight) > 0

AccSampleB(acc, jones, weight) ==
    LET inc == IncludedB(weight)
    IN  [weight_sum_f64 |-> IF inc THEN acc.weight_sum_f64 + Abs(weight)
                            ELSE acc.weight_sum_f64,
         jones_sum |-> [p \in Pols |-> CAdd(acc.jones_sum[p], jones[p])],
         jones_weighted_sum |->
            [p \in Pols |-> IF inc
                            THEN CAdd(acc.jones_weighted_sum[p],
                                      CScale(jones[p], Abs(weight)))
                            ELSE acc.jones_weighted_sum[p]],
         avg_flag |-> acc.avg_flag /\ ~inc]

RECURSIVE AccRowB(_, _, _, _)
AccRowB(acc, jones_row, weight_row, c) ==
    IF c > Min(Len(jones_row), Len(weight_row)) THEN acc
    ELSE AccRowB(AccSampleB(acc, jones_row[c], weight_row[c]),
                 jones_row, weight_row, c + 1)

RECURSIVE AccChunkB(_, _, _, _)
AccChunkB(acc, jones_chunk, weights_chunk, r) ==
    IF r > Min(Len(jones_chunk), Len(weights_chunk)) THEN acc
    ELSE AccChunkB(AccRowB(acc, jones_chunk[r], weights_chunk[r], 1),
                   jones_chunk, weights_chunk, r + 1)

AvgOutputB(acc, chunk_size) ==
    [jones  |-> [p \in Pols |->
                    IF ~acc.avg_flag
                    THEN CDiv(acc.jones_weighted_sum[p], acc.weight_sum_f64)
                    ELSE CDiv(acc.jones_sum[p], chunk_size)],
     weight |-> acc.weight_sum_f64,
     flag   |-> acc.avg_flag]

average_chunk_f64(jones_chunk, weights_chunk) ==
    AvgOutputB(AccChunkB(AccInitB, jones_chunk, weights_chunk, 1),
               ChunkLen(jones_chunk))

----------------------------------------------------------------------------
(* average_visibilities: shapes and iteration *)

\* a mutant of the validation: the flag shape is checked first
ValidateShapesFlagFirst(jd, wd, fd) ==
    IF fd # <<jd[1], jd[2], jd[3], 4>> THEN "flag_array"
    ELSE IF wd # <<jd[1], jd[2], jd[3], 4>> THEN "weight_array"
    ELSE ""

\* the two shape checks in their order: the argument of the BadArrayShape
\* error that is returned, or "" when both shapes are right
ValidateShapes(jd, wd, fd) ==
    IF wd # <<jd[1], jd[2], jd[3], 4>> THEN "weight_array"
    ELSE IF fd # <<jd[1], jd[2], jd[3], 4>> THEN "flag_array"
    ELSE ""

\* f64::ceil of a non-negative finite quotient, as usize
CeilF64(q) == IF q[1] % q[2] = 0 THEN q[1] \div q[2] ELSE q[1] \div q[2] + 1

\* averaged_dims
AveragedDims(jd, at, af) ==
    <<CeilF64(Div(jd[1], at)), CeilF64(Div(jd[2], af)), jd[3]>>

\* a mutant of the chunking: a chunk starts on the last sample of the one
\* before it
AxisChunksOverlap(len, size) ==
    [k \in 1..((len \div size) + (IF len % size # 0 THEN 1 ELSE 0)) |->
        <<IF k = 1 THEN 1 ELSE (k - 1) * size, Min(k * size, len)>>]

\* a mutant of the chunking: a ragged trailing chunk is dropped
AxisChunksExact(len, size) ==
    [k \in 1..(len \div size) |-> <<(k - 1) * size + 1, k * size>>]

\* axis_chunks_iter(axis, size) on an axis of length len: the index ranges
\* <<first, last>> of the consecutive chunks, the last one shorter when size
\* does not divide len
AxisChunks(len, size) ==
    [k \in 1..((len \div size) + (IF len % size # 0 THEN 1 ELSE 0)) |->
        <<(k - 1) * size + 1, Min(k * size, len)>>]

\* the index set of an array of the given leading three dimensions
Idx3(dims) == (1..dims[1]) \X (1..dims[2]) \X (1..dims[3])

\* the iterations of the three nested izip loops: block <<i, j, b>> pairs
\* time chunk i and frequency chunk j of baseline b with an output cell,
\* and each izip ends with the shortest of its iterators
Blocks(jd, ad, at, af) ==
    { blk \in (1..Min(Len(AxisChunks(jd[1], at)), ad[1]))
              \X (1..Min(Len(AxisChunks(jd[2], af)), ad[2]))
              \X (1..Min(jd[3], ad[3])) : TRUE }

\* the order of the sequential iteration: time, then frequency, then baseline
BlockBefore(x, y) ==
    \/ x[1] < y[1]
    \/ x[1] = y[1] /\ x[2] < y[2]
    \/ x[1] = y[1] /\ x[2] = y[2] /\ x[3] < y[3]

\* the [at, af] chunk of baseline blk[3] that block blk is given from array arr
BlockChunk(arr, jd, at, af, blk) ==
    LET tr == AxisChunks(jd[1], at)[blk[1]]
        fr == AxisChunks(jd[2], af)[blk[2]]
    IN  [r \in 1..(tr[2] - tr[1] + 1) |->
            [c \in 1..(fr[2] - fr[1] + 1) |->
                arr[<<tr[1] + r - 1, fr[1] + c - 1, blk[3]>>]]]

\* a mutant of the output position: the baseline of the cell is lost
OutCellFirstBaseline(blk) == <<blk[1], blk[2], 1>>

\* the output cell that block blk writes
OutCell(blk) == <<blk[1], blk[2], blk[3]>>

----------------------------------------------------------------------------
(* State *)

VARIABLES
    \* a chunk handed directly to the chunk reducers, as rows of samples
    chunk_jones,        \* [at, af] of Jones
    chunk_weights,      \* [at, af, pol]
    chunk_flags,        \* [at, af, pol]
    chunk_weights_b,    \* [at, af], the scalar weights of Variant B
    out_a,              \* <<>> or <<the output of Variant A>>
    out_b,              \* <<>> or <<the output of Variant B>>
    \* average_visibilities
    jones_array,        \* [timestep, channel, baseline] of Jones
    weight_array,       \* [timestep, channel, baseline] of per-pol weights
    flag_array,         \* [timestep, channel, baseline] of per-pol flags
    jones_dims, weight_dims, flag_dims,
    avg_time, avg_freq,
    pc,                 \* "start", "loop" or "done"
    result,             \* "none", "Ok" or "Err"
    argument,           \* the argument field of the error returned
    averaged_dims,
    averaged_jones_array, averaged_weight_array, averaged_flag_array,
    done_blocks,        \* the blocks whose reduction has been performed
    writes,             \* per output cell, the number of reductions written
    workers,            \* per block being reduced by a worker of its own,
                        \* the output computed and not yet written
    \* a second call of average_visibilities, on the same shapes, flags and
    \* factors
    twin_jones_array,   \* its visibilities
    twin_weight_array,  \* its weights
    twin_averaged       \* <<>> or <<the three arrays it returns>>

chunk_vars ==
    <<chunk_jones, chunk_weights, chunk_flags, chunk_weights_b, out_a, out_b>>

input_vars ==
    <<jones_array, weight_array, flag_array, jones_dims, weight_dims,
      flag_dims, avg_time, avg_freq>>

output_vars ==
    <<averaged_dims, averaged_jones_array, averaged_weight_array,
      averaged_flag_array>>

avg_vars ==
    <<input_vars, pc, result, argument, output_vars, done_blocks, writes,
      workers>>

twin_vars == <<twin_jones_array, twin_weight_array, twin_averaged>>

vars == <<chunk_vars, avg_vars, twin_vars>>

\* no second call is made
NoTwin ==
    /\ twin_jones_array = <<>> /\ twin_weight_array = <<>>
    /\ twin_averaged = <<>>

\* no call of average_visibilities is under way
NoCall ==
    /\ jones_array = <<>> /\ weight_array = <<>> /\ flag_array = <<>>
    /\ jones_dims = <<0, 0, 0>>
    /\ weight_dims = <<0, 0, 0, 4>> /\ flag_dims = <<0, 0, 0, 4>>
    /\ avg_time = 1 /\ avg_freq = 1
    /\ pc = "done" /\ result = "none" /\ argument = ""
    /\ averaged_dims = <<0, 0, 0>>
    /\ averaged_jones_array = <<>> /\ averaged_weight_array = <<>>
    /\ averaged_flag_array = <<>>
    /\ done_blocks = {} /\ writes = <<>> /\ workers = <<>>

\* no chunk is handed directly to a chunk reducer
NoChunk ==
    /\ chunk_jones = <<>> /\ chunk_weights = <<>> /\ chunk_flags = <<>>
    /\ chunk_weights_b = <<>>
    /\ out_a = <<>> /\ out_b = <<>>

----------------------------------------------------------------------------
(* Inputs of the chunk reducers *)

JonesIdentity == <<<<1, 0>>, <<0, 0>>, <<0, 0>>, <<1, 0>>>>
JonesOther == <<<<3, 1>>, <<0, 2>>, <<-2, 0>>, <<1, -1>>>>
JonesVals == {JonesIdentity, JonesOther}

WeightVecs ==
    {<<-1, -1, -1, -1>>, <<0, 0, 0, 0>>, <<1, 1, 1, 1>>, <<1, 2, 3, 4>>,
     <<2, 0, -1, 1>>}

FlagVecs ==
    {<<FALSE, FALSE, FALSE, FALSE>>, <<TRUE, TRUE, TRUE, TRUE>>,
     <<TRUE, FALSE, TRUE, FALSE>>}

ChunkSamples ==
    [jones : JonesVals, weight : WeightVecs, flag : FlagVecs]

ChunkShapes ==
    { sh \in (1..MaxChunk) \X (1..MaxChunk) : sh[1] * sh[2] <= MaxChunk }

\* a chunk of at rows of af samples; the scalar weight of Variant B is the
\* weight of the first polarization
InitChunk ==
    \E sh \in ChunkShapes :
        \E s \in [(1..sh[1]) \X (1..sh[2]) -> ChunkSamples] :
            /\ chunk_jones =
                   [r \in 1..sh[1] |-> [c \in 1..sh[2] |-> s[<<r, c>>].jones]]
            /\ chunk_weights =
                   [r \in 1..sh[1] |-> [c \in 1..sh[2] |-> s[<<r, c>>].weight]]
            /\ chunk_flags =
                   [r \in 1..sh[1] |-> [c \in 1..sh[2] |-> s[<<r, c>>].flag]]
            /\ chunk_weights_b =
                   [r \in 1..sh[1] |-> [c \in 1..sh[2] |-> s[<<r, c>>].weight[1]]]
    /\ out_a = <<>>
    /\ out_b = <<>>
    /\ NoCall
    /\ NoTwin

\* the macro average_chunk_for_pols_f64 applied to the chunk
ReduceA ==
    /\ out_a = <<>>
    /\ out_a' = <<average_chunk_for_pols_f64(chunk_jones, chunk_weights,
                                              chunk_flags)>>
    /\ UNCHANGED <<chunk_jones, chunk_weights, chunk_flags, chunk_weights_b,
                   out_b, avg_vars, twin_vars>>

\* the macro average_chunk_f64 applied to the chunk
ReduceB ==
    /\ out_b = <<>>
    /\ out_b' = <<average_chunk_f64(chunk_jones, chunk_weights_b)>>
    /\ UNCHANGED <<chunk_jones, chunk_weights, chunk_flags, chunk_weights_b,
                   out_a, avg_vars, twin_vars>>

NextChunk == ReduceA \/ ReduceB

SpecChunk == InitChunk /\ [][NextChunk]_vars

----------------------------------------------------------------------------
(* What a chunk contains, stated on the chunk itself *)

\* the (row, column) positions of the samples of the chunk
ChunkPositions ==
    { rc \in (1..Len(chunk_jones)) \X (1..MaxChunk) :
        rc[2] <= Len(chunk_jones[rc[1]]) }

\* the samples of polarization p that are unflagged with weight >= 0
IncludedPositions(p) ==
    { rc \in ChunkPositions :
        ~chunk_flags[rc[1]][rc[2]][p] /\ chunk_weights[rc[1]][rc[2]][p] >= 0 }

\* the samples whose scalar weight is strictly positive
PositivePositionsB ==
    { rc \in ChunkPositions : chunk_weights_b[rc[1]][rc[2]] > 0 }

\* the sum of f over a finite set
\* (f is a function whose domain contains S)
RECURSIVE SetSum(_, _)
SetSum(S, f) ==
    IF S = {} THEN 0
    ELSE LET x == CHOOSE y \in S : TRUE
         IN  f[x] + SetSum(S \ {x}, f)

\* value * weight, and the plain value, of polarization p summed over positions
WeightedSumAt(S, p, part) ==
    SetSum(S, [rc \in S |->
        chunk_jones[rc[1]][rc[2]][p][part] * chunk_weights[rc[1]][rc[2]][p]])

WeightSumAt(S, p) ==
    SetSum(S, [rc \in S |-> chunk_weights[rc[1]][rc[2]][p]])

ValueSumAt(S, p, part) ==
    SetSum(S, [rc \in S |-> chunk_jones[rc[1]][rc[2]][p][part]])

SomeIncluded == \E p \in Pols : IncludedPositions(p) # {}

\* C1: when some sample of the chunk is unflagged with weight >= 0, each
\* polarization's output visibility is the sum of value * weight over that
\* polarization's unflagged samples of weight >= 0 divided by the sum of
\* those weights, and its output weight is that sum of weights; flagged and
\* negative-weight samples enter neither sum.
C1_WeightedMean ==
    (out_a # <<>> /\ SomeIncluded) =>
        \A p \in Pols :
            LET S == IncludedPositions(p)
            IN  /\ out_a[1].weight[p] = WeightSumAt(S, p)
                /\ out_a[1].jones[p] =
                       <<Div(WeightedSumAt(S, p, 1), WeightSumAt(S, p)),
                         Div(WeightedSumAt(S, p, 2), WeightSumAt(S, p))>>

\* a reduced chunk of two samples where a flagged sample of positive weight
\* and a negative-weight sample are left out of a polarization's sums
C1_Witness ==
    /\ out_a # <<>>
    /\ SomeIncluded
    /\ Cardinality(ChunkPositions) = 2
    /\ \E p \in Pols :
          /\ Cardinality(IncludedPositions(p)) = 1
          /\ out_a[1].weight[p] > 0
          /\ \E rc \in ChunkPositions \ IncludedPositions(p) :
                chunk_flags[rc[1]][rc[2]][p] /\ chunk_weights[rc[1]][rc[2]][p] > 0
    /\ \E p \in Pols :
          \E rc \in ChunkPositions \ IncludedPositions(p) :
                chunk_weights[rc[1]][rc[2]][p] < 0

AllZeroUnflagged ==
    \A rc \in ChunkPositions :
        /\ chunk_weights_b[rc[1]][rc[2]] = 0
        /\ \A p \in Pols :
              /\ chunk_weights[rc[1]][rc[2]][p] = 0
              /\ ~chunk_flags[rc[1]][rc[2]][p]

\* C9: Variant A includes an unflagged sample of weight 0, so a chunk of
\* unflagged zero-weight samples is output unflagged; Variant B includes
\* only strictly positive weights, so the same chunk is output flagged,
\* with weight 0 and the unweighted mean of its samples; Variant B's output
\* weight is the sum of the strictly positive weights and its flag is true
\* iff no sample is included.
C9_ZeroWeightAsymmetry ==
    /\ (out_a # <<>> /\ AllZeroUnflagged) =>
           \A p \in Pols : out_a[1].flag[p] = FALSE
    /\ out_b # <<>> =>
           /\ out_b[1].weight =
                  SetSum(PositivePositionsB,
                         [rc \in PositivePositionsB |->
                             chunk_weights_b[rc[1]][rc[2]]])
           /\ out_b[1].flag = (PositivePositionsB = {})
           /\ AllZeroUnflagged =>
                  /\ out_b[1].flag = TRUE
                  /\ out_b[1].weight = 0
                  /\ \A p \in Pols :
                        out_b[1].jones[p] =
                            <<Div(ValueSumAt(ChunkPositions, p, 1),
                                  Cardinality(ChunkPositions)),
                              Div(ValueSumAt(ChunkPositions, p, 2),
                                  Cardinality(ChunkPositions))>>

\* both variants have reduced a chunk of two unflagged zero-weight samples
C9_Witness ==
    /\ out_a # <<>>
    /\ out_b # <<>>
    /\ AllZeroUnflagged
    /\ Cardinality(ChunkPositions) = 2
    /\ ~out_a[1].flag[1]
    /\ out_b[1].flag

----------------------------------------------------------------------------
(* Inputs of average_visibilities *)

\* the samples an input array is filled with: a plain sample, one with a
\* different weight per polarization, a flagged one, an unflagged one of
\* negative (sentinel) weight, an unflagged one of weight 0, and one with
\* some polarizations flagged, one of weight 0 and one of negative weight
ArraySamples ==
    {[jones |-> JonesIdentity, weight |-> <<1, 1, 1, 1>>,
      flag |-> <<FALSE, FALSE, FALSE, FALSE>>],
     [jones |-> JonesOther, weight |-> <<1, 2, 3, 4>>,
      flag |-> <<FALSE, FALSE, FALSE, FALSE>>],
     [jones |-> JonesOther, weight |-> <<1, 1, 1, 1>>,
      flag |-> <<TRUE, TRUE, TRUE, TRUE>>],
     [jones |-> JonesOther, weight |-> <<-1, -1, -1, -1>>,
      flag |-> <<FALSE, FALSE, FALSE, FALSE>>],
     [jones |-> JonesIdentity, weight |-> <<0, 0, 0, 0>>,
      flag |-> <<FALSE, FALSE, FALSE, FALSE>>],
     [jones |-> JonesOther, weight |-> <<2, 0, -1, 1>>,
      flag |-> <<TRUE, FALSE, TRUE, FALSE>>]}

\* the shapes of the visibility array
JonesShapes ==
    { jd \in (0..MaxT) \X (0..MaxF) \X (0..MaxB) :
        jd[1] * jd[2] * jd[3] <= MaxSamples }

\* the shape (T, F, B, 4) that the weights and flags must have
ExpectedDims(jd) == <<jd[1], jd[2], jd[3], 4>>

\* shapes that differ from the expected one: a wrong trailing dimension
\* and a wrong leading one
WrongDims(jd) == {<<jd[1], jd[2], jd[3], 3>>, <<jd[1] + 1, jd[2], jd[3], 4>>}

\* the state at the call of average_visibilities: arrays of matching shapes
\* filled with any samples, or arrays filled with plain values of which the
\* weights or the flags have a wrong shape
InitWith(samples) ==
    /\ \E jd \in JonesShapes :
          /\ jones_dims = jd
          /\ \/ \E s \in [Idx3(jd) -> samples] :
                   /\ weight_dims = ExpectedDims(jd)
                   /\ flag_dims = ExpectedDims(jd)
                   /\ jones_array = [x \in Idx3(jd) |-> s[x].jones]
                   /\ weight_array = [x \in Idx3(jd) |-> s[x].weight]
                   /\ flag_array = [x \in Idx3(jd) |-> s[x].flag]
             \/ \E wd \in WrongDims(jd) \cup {ExpectedDims(jd)},
                   fd \in WrongDims(jd) \cup {ExpectedDims(jd)} :
                   /\ wd # ExpectedDims(jd) \/ fd # ExpectedDims(jd)
                   /\ weight_dims = wd
                   /\ flag_dims = fd
                   /\ jones_array = [x \in Idx3(jd) |-> JonesIdentity]
                   /\ weight_array = [x \in Idx3(wd) |-> [p \in 1..wd[4] |-> 1]]
                   /\ flag_array = [x \in Idx3(fd) |-> [p \in 1..fd[4] |-> FALSE]]
    /\ avg_time \in 1..MaxFactor
    /\ avg_freq \in 1..MaxFactor
    /\ pc = "start"
    /\ result = "none"
    /\ argument = ""
    /\ averaged_dims = <<0, 0, 0>>
    /\ averaged_jones_array = <<>>
    /\ averaged_weight_array = <<>>
    /\ averaged_flag_array = <<>>
    /\ done_blocks = {}
    /\ writes = <<>>
    /\ workers = <<>>

InitCall == InitWith(ArraySamples)

Init == InitCall /\ NoChunk /\ NoTwin

----------------------------------------------------------------------------
(* average_visibilities *)

\* a shape check fails: the error is returned and nothing is allocated
ReturnErr ==
    /\ pc = "start"
    /\ ValidateShapes(jones_dims, weight_dims, flag_dims) # ""
    /\ result' = "Err"
    /\ argument' = ValidateShapes(jones_dims, weight_dims, flag_dims)
    /\ pc' = "done"
    /\ UNCHANGED <<chunk_vars, twin_vars, input_vars, output_vars, done_blocks, writes,
                   workers>>

\* both shape checks pass: the three output arrays are allocated, filled
\* with zeros and false
Allocate ==
    /\ pc = "start"
    /\ ValidateShapes(jones_dims, weight_dims, flag_dims) = ""
    /\ LET ad == AveragedDims(jones_dims, avg_time, avg_freq)
       IN  /\ averaged_dims' = ad
           /\ averaged_jones_array' =
                  [x \in Idx3(ad) |-> [p \in Pols |-> CFromInt(CZero)]]
           /\ averaged_weight_array' = [x \in Idx3(ad) |-> [p \in Pols |-> 0]]
           /\ averaged_flag_array' = [x \in Idx3(ad) |-> [p \in Pols |-> FALSE]]
           /\ writes' = [x \in Idx3(ad) |-> 0]
    /\ pc' = "loop"
    /\ UNCHANGED <<chunk_vars, twin_vars, input_vars, result, argument, done_blocks,
                   workers>>

\* the blocks still to be reduced
Pending ==
    Blocks(jones_dims, averaged_dims, avg_time, avg_freq) \ done_blocks

\* what the chunk reducer is given and computes for block blk of the input
\* arrays ja, wa and fa: the block's chunk of each of the three
ReduceOutOf(ja, wa, fa, blk) ==
    average_chunk_for_pols_f64(
        BlockChunk(ja, jones_dims, avg_time, avg_freq, blk),
        BlockChunk(wa, jones_dims, avg_time, avg_freq, blk),
        BlockChunk(fa, jones_dims, avg_time, avg_freq, blk))

ReduceOut(blk) == ReduceOutOf(jones_array, weight_array, flag_array, blk)

\* the three output arrays arrs after the output of block blk is written
WriteCell(arrs, blk, out) ==
    [jones  |-> [arrs.jones EXCEPT ![OutCell(blk)] = out.jones],
     weight |-> [arrs.weight EXCEPT ![OutCell(blk)] = out.weight],
     flag   |-> [arrs.flag EXCEPT ![OutCell(blk)] = out.flag]]

\* the three output arrays
Averaged ==
    [jones  |-> averaged_jones_array,
     weight |-> averaged_weight_array,
     flag   |-> averaged_flag_array]

\* the output of block blk is written into its output cell
WriteOut(blk, out) ==
    /\ averaged_jones_array' = WriteCell(Averaged, blk, out).jones
    /\ averaged_weight_array' = WriteCell(Averaged, blk, out).weight
    /\ averaged_flag_array' = WriteCell(Averaged, blk, out).flag
    /\ writes' = [writes EXCEPT ![OutCell(blk)] = @ + 1]
    /\ done_blocks' = done_blocks \cup {blk}
    /\ UNCHANGED <<chunk_vars, twin_vars, input_vars, pc, result, argument,
                   averaged_dims>>

\* the reduction of block blk
Reduce(blk) == WriteOut(blk, ReduceOut(blk)) /\ UNCHANGED workers

\* one iteration of the innermost loop: the next block in the order time,
\* frequency, baseline
ReduceBlock ==
    /\ pc = "loop"
    /\ \E blk \in Pending :
          /\ \A other \in Pending : ~BlockBefore(other, blk)
          /\ Reduce(blk)

\* the loops have ended: the three arrays are returned
ReturnOk ==
    /\ pc = "loop"
    /\ Pending = {}
    /\ result' = "Ok"
    /\ pc' = "done"
    /\ UNCHANGED <<chunk_vars, twin_vars, input_vars, argument, output_vars, done_blocks,
                   writes, workers>>

Next == ReturnErr \/ Allocate \/ ReduceBlock \/ ReturnOk

Spec == Init /\ [][Next]_vars

----------------------------------------------------------------------------
(* The block reductions of average_visibilities, one worker per block.     *)
(* average_visibilities itself performs them one after the other (Spec);   *)
(* here each reduction is split as the macro is, into the loops that read  *)
(* the chunk into the accumulators and the output stage that writes the    *)
(* cell, and the reductions of different blocks interleave freely.         *)

\* the samples of the inputs whose blocks are reduced in any order
WorkerSamples ==
    { s \in ArraySamples : s.weight \in {<<1, 1, 1, 1>>, <<1, 2, 3, 4>>} }

InitWorkers == InitWith(WorkerSamples) /\ NoChunk /\ NoTwin

\* a worker takes a block that no worker has taken and runs the loops of
\* the chunk reducer over the block's chunk
StartWorker ==
    /\ pc = "loop"
    /\ \E blk \in Pending \ DOMAIN workers :
          workers' = [b \in DOMAIN workers \cup {blk} |->
                         IF b = blk THEN ReduceOut(blk) ELSE workers[b]]
    /\ UNCHANGED <<chunk_vars, twin_vars, input_vars, pc, result, argument, output_vars,
                   done_blocks, writes>>

\* a worker runs the output stage of the chunk reducer, which writes the
\* output cell of its block, and ends
FinishWorker ==
    /\ pc = "loop"
    /\ \E blk \in DOMAIN workers :
          /\ WriteOut(blk, workers[blk])
          /\ workers' = [b \in DOMAIN workers \ {blk} |-> workers[b]]

NextWorkers == ReturnErr \/ Allocate \/ StartWorker \/ FinishWorker \/ ReturnOk

SpecWorkers == InitWorkers /\ [][NextWorkers]_vars

----------------------------------------------------------------------------
(* What average_visibilities returns, stated on the input arrays *)

\* the call has returned its three arrays
Returned == pc = "done" /\ result = "Ok"

\* ceil(n / d) in integers
CeilDiv(n, d) == (n + d - 1) \div d

\* the input samples of the block of output cell <<i, j, b>>: those with
\* floor(t / avg_time) = i and floor(f / avg_freq) = j for 0-based t, f, i, j
BlockSamples(cell) ==
    { x \in Idx3(jones_dims) :
        /\ (x[1] - 1) \div avg_time + 1 = cell[1]
        /\ (x[2] - 1) \div avg_freq + 1 = cell[2]
        /\ x[3] = cell[3] }

\* those of them that are unflagged with weight >= 0 in polarization p
IncludedIn(cell, p) ==
    { x \in BlockSamples(cell) : ~flag_array[x][p] /\ weight_array[x][p] >= 0 }

SomeIncludedIn(cell) == \E p \in Pols : IncludedIn(cell, p) # {}

\* a block with fewer samples than avg_time * avg_freq
Ragged(cell) == Cardinality(BlockSamples(cell)) < avg_time * avg_freq

BothShapesRight ==
    /\ weight_dims = <<jones_dims[1], jones_dims[2], jones_dims[3], 4>>
    /\ flag_dims = <<jones_dims[1], jones_dims[2], jones_dims[3], 4>>

\* C3: whenever the weighted branch is taken for an output cell (the cell is
\* output unflagged), every polarization's weight total is non-zero, so that
\* no output visibility is a NaN or an infinity.
C3_NoZeroDivision ==
    Returned =>
        \A cell \in Idx3(averaged_dims) : \A p \in Pols :
            /\ ~averaged_flag_array[cell][p] => averaged_weight_array[cell][p] # 0
            /\ CIsFinite(averaged_jones_array[cell][p])

\* C4: the call ends in a BadArrayShape error, with no output array, exactly
\* when the weight or the flag array is not of shape (T, F, B, 4); the
\* error names weight_array whenever the weight shape is wrong and
\* flag_array when only the flag shape is wrong; otherwise it ends in Ok.
C4_ShapeError ==
    /\ ~BothShapesRight =>
          /\ result # "Ok"
          /\ averaged_jones_array = <<>>
          /\ averaged_weight_array = <<>>
          /\ averaged_flag_array = <<>>
          /\ writes = <<>>
    /\ pc = "done" =>
          /\ result = (IF BothShapesRight THEN "Ok" ELSE "Err")
          /\ argument =
                (IF weight_dims # <<jones_dims[1], jones_dims[2], jones_dims[3], 4>>
                 THEN "weight_array"
                 ELSE IF flag_dims # <<jones_dims[1], jones_dims[2], jones_dims[3], 4>>
                 THEN "flag_array"
                 ELSE "")

\* the call has failed on inputs of which both shapes are wrong
C4_Witness ==
    /\ pc = "done"
    /\ result = "Err"
    /\ argument = "weight_array"
    /\ weight_dims[4] = 3
    /\ flag_dims[1] = jones_dims[1] + 1
    /\ averaged_jones_array = <<>>

\* the call has failed on inputs of which only the flag shape is wrong
C4_WitnessFlag ==
    /\ pc = "done"
    /\ result = "Err"
    /\ argument = "flag_array"
    /\ weight_dims = <<jones_dims[1], jones_dims[2], jones_dims[3], 4>>

\* C5: the returned visibility array has shape (ceil(T/tf), ceil(F/ff), B),
\* the returned weight and flag arrays that shape with a trailing 4, and
\* every cell has been written by exactly one chunk reduction.
C5_OutputShape ==
    Returned =>
        LET shape == <<CeilDiv(jones_dims[1], avg_time),
                       CeilDiv(jones_dims[2], avg_freq), jones_dims[3]>>
        IN  /\ averaged_dims = shape
            /\ DOMAIN averaged_jones_array = Idx3(shape)
            /\ DOMAIN averaged_weight_array = Idx3(shape)
            /\ DOMAIN averaged_flag_array = Idx3(shape)
            /\ \A cell \in Idx3(shape) :
                  /\ DOMAIN averaged_weight_array[cell] = 1..4
                  /\ DOMAIN averaged_flag_array[cell] = 1..4
                  /\ writes[cell] = 1

\* the call has returned for factors that divide neither T nor F
C5_Witness ==
    /\ Returned
    /\ jones_dims[1] % avg_time # 0
    /\ jones_dims[2] % avg_freq # 0
    /\ jones_dims[1] > avg_time
    /\ Cardinality(Idx3(averaged_dims)) >= 2
    /\ \A cell \in Idx3(averaged_dims) : writes[cell] = 1

\* the sum over the samples S of polarization p's weight, and of a part
\* (1: re, 2: im) of its value, plain or times its weight
ArrWeightSum(S, p) == SetSum(S, [x \in S |-> weight_array[x][p]])
ArrValueSum(S, p, part) == SetSum(S, [x \in S |-> jones_array[x][p][part]])
ArrWeightedSum(S, p, part) ==
    SetSum(S, [x \in S |-> jones_array[x][p][part] * weight_array[x][p]])

\* C6: every input sample (t, f, b) lies in exactly one block, that of
\* output cell (floor(t/tf), floor(f/ff), b); each output cell is computed
\* from exactly the samples of its block, a ragged trailing block from the
\* samples present only: its fallback mean is divided by their number and
\* its output weight is the sum of their unflagged non-negative weights.
C6_BlockMembership ==
    /\ (pc = "loop" \/ Returned) =>
          \A x \in Idx3(jones_dims) :
              LET holding ==
                      { blk \in Blocks(jones_dims, averaged_dims, avg_time, avg_freq) :
                          \E r \in DOMAIN BlockChunk(jones_array, jones_dims,
                                                     avg_time, avg_freq, blk) :
                              \E c \in 1..avg_freq :
                                  LET tr == AxisChunks(jones_dims[1], avg_time)[blk[1]]
                                      fr == AxisChunks(jones_dims[2], avg_freq)[blk[2]]
                                  IN  /\ fr[1] + c - 1 <= fr[2]
                                      /\ x = <<tr[1] + r - 1, fr[1] + c - 1, blk[3]>> }
              IN  holding = {<<(x[1] - 1) \div avg_time + 1,
                               (x[2] - 1) \div avg_freq + 1, x[3]>>}
    /\ Returned =>
          \A cell \in Idx3(averaged_dims) : \A p \in Pols :
              LET S == IncludedIn(cell, p)
                  All == BlockSamples(cell)
              IN  /\ averaged_weight_array[cell][p] = ArrWeightSum(S, p)
                  /\ averaged_jones_array[cell][p] =
                        IF SomeIncludedIn(cell)
                        THEN <<Div(ArrWeightedSum(S, p, 1), ArrWeightSum(S, p)),
                               Div(ArrWeightedSum(S, p, 2), ArrWeightSum(S, p))>>
                        ELSE <<Div(ArrValueSum(All, p, 1), Cardinality(All)),
                               Div(ArrValueSum(All, p, 2), Cardinality(All))>>

\* the call has returned with a ragged trailing block reduced by the
\* fallback mean of its single sample, and another reduced to a weight
C6_Witness ==
    /\ Returned
    /\ \E cell \in Idx3(averaged_dims) :
          /\ Ragged(cell)
          /\ Cardinality(BlockSamples(cell)) = 1
          /\ ~SomeIncludedIn(cell)
          /\ averaged_flag_array[cell][1]
          /\ \A x \in BlockSamples(cell) :
                averaged_jones_array[cell][1] = CFromInt(jones_array[x][1])
    /\ \E cell \in Idx3(averaged_dims) :
          /\ Cardinality(BlockSamples(cell)) >= 2
          /\ averaged_weight_array[cell][1] >= 2

\* no flag is set in the input
NoFlags == \A x \in Idx3(jones_dims) : \A p \in Pols : ~flag_array[x][p]

\* C7: with time factor 1, frequency factor 1 and no flag set, the output
\* visibilities equal the input visibilities, the output weights equal the
\* input weights and every output flag is false.
C7_FactorOneNoOp ==
    (Returned /\ avg_time = 1 /\ avg_freq = 1 /\ NoFlags) =>
        /\ DOMAIN averaged_jones_array = Idx3(jones_dims)
        /\ \A x \in Idx3(jones_dims) : \A p \in Pols :
              /\ averaged_jones_array[x][p] = CFromInt(jones_array[x][p])
              /\ averaged_weight_array[x][p] = weight_array[x][p]
              /\ averaged_flag_array[x][p] = FALSE

\* C8: the four flags of an output cell are equal, and true iff no sample
\* of the cell's block is unflagged with weight >= 0 in any polarization.
C8_SharedFlag ==
    Returned =>
        \A cell \in Idx3(averaged_dims) :
            /\ \A p \in Pols :
                  averaged_flag_array[cell][p] = averaged_flag_array[cell][1]
            /\ averaged_flag_array[cell][1] = ~SomeIncludedIn(cell)

\* the call has returned a cell that is unflagged in a polarization of
\* which every sample is flagged, and a cell that is flagged
C8_Witness ==
    /\ Returned
    /\ \E cell \in Idx3(averaged_dims) :
          /\ IncludedIn(cell, 1) = {}
          /\ \A x \in BlockSamples(cell) : flag_array[x][1]
          /\ ~averaged_flag_array[cell][1]
    /\ \E cell \in Idx3(averaged_dims) : averaged_flag_array[cell][1]

\* the output arrays that the sequential iteration (time, then frequency,
\* then baseline) leaves when it reduces the blocks of todo into arrs
RECURSIVE SequentialRun(_, _)
SequentialRun(arrs, todo) ==
    IF todo = {} THEN arrs
    ELSE LET blk == CHOOSE x \in todo : \A y \in todo : ~BlockBefore(y, x)
         IN  SequentialRun(WriteCell(arrs, blk, ReduceOut(blk)), todo \ {blk})

\* the output arrays as allocated
Zeros ==
    [jones  |-> [x \in Idx3(averaged_dims) |-> [p \in Pols |-> CFromInt(CZero)]],
     weight |-> [x \in Idx3(averaged_dims) |-> [p \in Pols |-> 0]],
     flag   |-> [x \in Idx3(averaged_dims) |-> [p \in Pols |-> FALSE]]]

\* C10: the block reductions are independent: performed in any order or
\* interleaving, one worker per block, they leave the three output arrays
\* that the sequential iteration leaves, each reduction writes the cell of
\* its own block only, and no two reductions write the same output cell.
C10_OrderIndependent ==
    /\ Returned =>
          Averaged = SequentialRun(Zeros, Blocks(jones_dims, averaged_dims,
                                                 avg_time, avg_freq))
    /\ pc = "loop" =>
          /\ \A cell \in DOMAIN writes : writes[cell] <= 1
          /\ \A cell \in DOMAIN writes :
                (cell \notin done_blocks) =>
                    /\ writes[cell] = 0
                    /\ Averaged.jones[cell] = Zeros.jones[cell]
                    /\ Averaged.weight[cell] = Zeros.weight[cell]
                    /\ Averaged.flag[cell] = Zeros.flag[cell]

\* a later block of the sequential order has been written while an earlier
\* one is still being reduced by its worker and another has not been taken
C10_Witness ==
    /\ pc = "loop"
    /\ \E blk \in done_blocks :
          /\ averaged_weight_array[blk][1] > 0
          /\ \E other \in DOMAIN workers : BlockBefore(other, blk)
    /\ Pending \ DOMAIN workers # {}

\* all the reductions of a call with several blocks of different outputs
\* have been written and the call has returned
C10_WitnessReturned ==
    /\ Returned
    /\ Cardinality(done_blocks) >= 3
    /\ \E x \in done_blocks, y \in done_blocks :
          averaged_jones_array[x] # averaged_jones_array[y]

----------------------------------------------------------------------------
(* Two calls of average_visibilities on inputs that differ in excluded     *)
(* samples only                                                            *)

\* the samples of the first input: all polarizations included, all
\* flagged, all of negative weight, and some flagged or of negative weight
TwinSamples == { s \in ArraySamples : s.jones = JonesOther }

\* the ways in which the second input differs from the first
PerturbKinds == 1..2

\* polarization p of sample x of the first input is flagged or of negative
\* weight
ExcludedAt(x, p) == flag_array[x][p] \/ weight_array[x][p] < 0

\* the value of an excluded polarization in the second input: a sentinel,
\* or the value shifted
PerturbValue(kind, v) == IF kind = 1 THEN <<-9, 9>> ELSE CAdd(v, <<1, 1>>)

\* the weight of an excluded polarization in the second input: a flagged
\* one gets a sentinel or a larger weight, an unflagged negative one
\* another negative weight
PerturbWeight(kind, flagged, w) ==
    IF kind = 1 THEN -5
    ELSE IF flagged THEN w + 3
    ELSE w - 1

\* the state at the first call, with a second input that has the flags of
\* the first and differs from it in every excluded polarization
InitTwin ==
    /\ InitWith(TwinSamples)
    /\ NoChunk
    /\ twin_averaged = <<>>
    /\ \E kind \in PerturbKinds :
          IF weight_dims = ExpectedDims(jones_dims)
             /\ flag_dims = ExpectedDims(jones_dims)
          THEN /\ twin_jones_array =
                      [x \in Idx3(jones_dims) |->
                          [p \in Pols |->
                              IF ExcludedAt(x, p)
                              THEN PerturbValue(kind, jones_array[x][p])
                              ELSE jones_array[x][p]]]
               /\ twin_weight_array =
                      [x \in Idx3(jones_dims) |->
                          [p \in Pols |->
                              IF ExcludedAt(x, p)
                              THEN PerturbWeight(kind, flag_array[x][p],
                                                 weight_array[x][p])
                              ELSE weight_array[x][p]]]
          ELSE /\ twin_jones_array = jones_array
               /\ twin_weight_array = weight_array

\* the output arrays that the iteration over the blocks of todo leaves in
\* arrs for the input arrays ja, wa and fa
RECURSIVE RunOn(_, _, _, _, _)
RunOn(ja, wa, fa, arrs, todo) ==
    IF todo = {} THEN arrs
    ELSE LET blk == CHOOSE x \in todo : \A y \in todo : ~BlockBefore(y, x)
         IN  RunOn(ja, wa, fa,
                   WriteCell(arrs, blk, ReduceOutOf(ja, wa, fa, blk)),
                   todo \ {blk})

\* the second call, from its shape checks (which pass as those of the first
\* call did) to its return
TwinCall ==
    /\ pc = "done"
    /\ result = "Ok"
    /\ twin_averaged = <<>>
    /\ LET ad == AveragedDims(jones_dims, avg_time, avg_freq)
           zeros ==
               [jones  |-> [x \in Idx3(ad) |-> [p \in Pols |-> CFromInt(CZero)]],
                weight |-> [x \in Idx3(ad) |-> [p \in Pols |-> 0]],
                flag   |-> [x \in Idx3(ad) |-> [p \in Pols |-> FALSE]]]
       IN  twin_averaged' =
               <<RunOn(twin_jones_array, twin_weight_array, flag_array, zeros,
                       Blocks(jones_dims, ad, avg_time, avg_freq))>>
    /\ UNCHANGED <<chunk_vars, avg_vars, twin_jones_array, twin_weight_array>>

NextTwin == ReturnErr \/ Allocate \/ ReduceBlock \/ ReturnOk \/ TwinCall

SpecTwin == InitTwin /\ [][NextTwin]_vars

\* both calls have returned
BothReturned == Returned /\ twin_averaged # <<>>

\* the two inputs agree on the value and the weight of every polarization
\* of every sample that either of them includes (the flags are shared)
TwinAgrees ==
    \A x \in Idx3(jones_dims) : \A p \in Pols :
        (~flag_array[x][p]
            /\ (weight_array[x][p] >= 0 \/ twin_weight_array[x][p] >= 0)) =>
            /\ twin_jones_array[x][p] = jones_array[x][p]
            /\ twin_weight_array[x][p] = weight_array[x][p]

\* the two inputs differ in polarization p of sample x
TwinDiffersAt(x, p) ==
    \/ twin_jones_array[x][p] # jones_array[x][p]
    \/ twin_weight_array[x][p] # weight_array[x][p]

\* C11: when a block has a sample that is unflagged with weight >= 0, its
\* output cell is unflagged, and two inputs with the same flags and the same
\* values and weights of the included samples, differing only in the values
\* and weights of flagged or negative-weight samples, give the cell the
\* same visibility, weight and flag.
C11_ExcludedIrrelevant ==
    (BothReturned /\ TwinAgrees) =>
        \A cell \in Idx3(averaged_dims) :
            SomeIncludedIn(cell) =>
                /\ \A p \in Pols : ~averaged_flag_array[cell][p]
                /\ twin_averaged[1].jones[cell] = averaged_jones_array[cell]
                /\ twin_averaged[1].weight[cell] = averaged_weight_array[cell]
                /\ twin_averaged[1].flag[cell] = averaged_flag_array[cell]

\* both calls have returned the same unflagged cell for a block of several
\* samples in which the inputs differ in a flagged and in an unflagged
\* negative-weight polarization, while a cell of a fully excluded block
\* differs between the two calls
C11_Witness ==
    /\ BothReturned
    /\ TwinAgrees
    /\ \E cell \in Idx3(averaged_dims) :
          /\ SomeIncludedIn(cell)
          /\ Cardinality(BlockSamples(cell)) >= 2
          /\ \E x \in BlockSamples(cell) : \E p \in Pols :
                flag_array[x][p] /\ TwinDiffersAt(x, p)
          /\ \E x \in BlockSamples(cell) : \E p \in Pols :
                ~flag_array[x][p] /\ weight_array[x][p] < 0 /\ TwinDiffersAt(x, p)
          /\ twin_averaged[1].jones[cell] = averaged_jones_array[cell]
          /\ \E p \in Pols : averaged_weight_array[cell][p] > 0
          /\ ~averaged_flag_array[cell][1]
    /\ \E cell \in Idx3(averaged_dims) :
          /\ ~SomeIncludedIn(cell)
          /\ twin_averaged[1].jones[cell] # averaged_jones_array[cell]

----------------------------------------------------------------------------
(* The output weights *)

\* C12: every output weight is >= 0, whatever the flags and the weights of
\* the input, negative ones included, and the four weights of an output
\* cell whose flag is true are exactly 0 (an unflagged cell may have
\* weight 0 in a polarization as well).
C12_WeightsNonNegative ==
    (pc = "loop" \/ Returned) =>
        \A cell \in Idx3(averaged_dims) :
            /\ \A p \in Pols : averaged_weight_array[cell][p] >= 0
            /\ (\E p \in Pols : averaged_flag_array[cell][p]) =>
                  \A q \in Pols : averaged_weight_array[cell][q] = 0

\* the call has returned a flagged cell of weight 0 for a block with a
\* negative weight, an unflagged cell with weight 0 in one polarization and
\* a positive weight in another, for a block with a negative weight too
C12_Witness ==
    /\ Returned
    /\ \E cell \in Idx3(averaged_dims) :
          /\ averaged_flag_array[cell][1]
          /\ \E x \in BlockSamples(cell) : weight_array[x][1] < 0
          /\ \A p \in Pols : averaged_weight_array[cell][p] = 0
    /\ \E cell \in Idx3(averaged_dims) :
          /\ ~averaged_flag_array[cell][1]
          /\ \E x \in BlockSamples(cell) : \E p \in Pols : weight_array[x][p] < 0
          /\ \E p \in Pols : averaged_weight_array[cell][p] = 0
          /\ \E p \in Pols : averaged_weight_array[cell][p] > 0

====
